---- MODULE Spec2Model ----
(***************************************************************************)
(* Model of the GPU frame read-back pipeline of bevy_render_to_image:      *)
(* plugin construction (ImageExportPlugin::build, NDIExportPlugin::build), *)
(* asset preparation (ImageExportSource::prepare_asset), the render-graph  *)
(* copy node, the read-back (get_image) and the two consuming systems      *)
(* (save_buffer_to_disk, ndi_send_buffer) with the NDI rate limiter.       *)
(*                                                                         *)
(* One render frame is the sequence of phases                              *)
(*   main -> prepare -> (render graph) -> systems -> (cleanup) -> main.    *)
(* A panic (an unwrap on None / Err) ends the process: app = "panicked".   *)
(***************************************************************************)
EXTENDS Integers, FiniteSets, Sequences, TLC

\* ---------------------------------------------------------------- bounds
MaxSources == 2
MaxEntities == 2
MaxFrames == 2
\* time.delta() of one frame, in time units
MaxDelta == 3
\* resolution of time: units in one second
UnitsPerSecond == 2

\* ------------------------------------------------------ program constants
\* Timer::from_seconds(1.0, TimerMode::Repeating)
TimerSeconds == 1

Sources == 1..MaxSources
Entities == 1..MaxEntities
SystemNames == {"disk", "ndi"}
None == [none |-> TRUE]
NoEntity == 0

VARIABLES
  app,          \* "building" | "running" | "panicked"
  panicAt,      \* "none" | "add_plugins" | "prepare_asset" | "get_image"
  plugins,      \* plugins of this crate added to the App
  renderAssetPlugin, \* RenderAssetPlugin::<ImageExportSource> is added
  extractors,   \* component kinds with an ExtractComponentPlugin
  systems,      \* systems added to the Render schedule
  nodeRegistered, \* ImageExportNode is in the render graph after CAMERA_DRIVER
  phase,        \* "main" | "prepare" | "systems"
  frame,        \* number of the current render frame
  bindKind,     \* entity -> "ImageExport" | "NDIExport" (its export component)
  bindSrc,      \* entity -> its Handle<ImageExportSource>
  senderLock,   \* entity -> holder of its NDIExport.sender mutex: "free" | "render"
  registered,   \* export sources added to Assets<ImageExportSource>
  pending,      \* extracted export sources not yet prepared
  gpuImages,    \* sources whose texture is in RenderAssets<Image>
  prepared,     \* RenderAssets<ImageExportSource>: source -> GpuImageExportSource | None
  bufState,     \* staging buffer: "unmapped" | "pending" | "mapped"
  bufContent,   \* frame number of the copy that last wrote the buffer (0: never written)
  pc,           \* system -> position in its run
  cur,          \* system -> entity of the current loop iteration
  chan,         \* system -> oneshot channel: "Empty" | "Ok" | "Err"
  timer,        \* NDIExportRateLimiter: elapsed time of the repeating timer
  justFinished, \* timer.just_finished() of this frame's tick
  copies,       \* source -> copies issued in this frame
  cycles,       \* source -> map/read/unmap cycles completed in this frame
  outstanding,  \* source -> map requests issued and not yet unmapped
  saved,        \* <<system, entity>>: images the system handed to the disk writer this frame
  sent,         \* entity -> send_video calls with its frame in this frame
  buildFailed,  \* entities whose NDI frame construction failed this frame
  readTimings,  \* callback timings after which a mapped range was read this frame
  readTags,     \* entity -> image_bytes its read-back copied out this frame, as the
                \* frame number of the copy that wrote them (-1: no read)
  totalTime,    \* accumulated frame delta given to the timer
  sendFrames,   \* number of frames in which ndi_send_buffer sent
  lastSendAt,   \* totalTime at the latest send (-1: none)
  shortGap,     \* two sending frames were less than one interval apart
  fired,        \* system -> how the callback of its map request fired: "no" | "inline" | "later"
  calc          \* a call of a pure computation (row pitch, depadding): its input and result

vars == <<app, panicAt, plugins, renderAssetPlugin, extractors, systems,
          nodeRegistered, phase, frame, bindKind, bindSrc, senderLock,
          registered,
          pending, gpuImages, prepared, bufState, bufContent, pc, cur, chan,
          timer, justFinished, copies, cycles, outstanding, saved, sent,
          buildFailed, readTimings, readTags, totalTime, sendFrames,
          lastSendAt, shortGap,
          fired, calc>>

buildVars == <<plugins, renderAssetPlugin, extractors, systems, nodeRegistered>>
worldVars == <<bindKind, bindSrc, senderLock>>
assetVars == <<registered, pending, gpuImages, prepared>>
bufVars == <<bufState, bufContent>>
sysVars == <<pc, cur, chan>>
timerVars == <<timer, justFinished, totalTime, sendFrames, lastSendAt, shortGap>>
frameHist == <<copies, cycles, saved, sent, buildFailed, readTimings, readTags>>

\* Timer duration in time units.
Interval == TimerSeconds * UnitsPerSecond

\* The App before any plugin is added, with the entities setup spawns.
FrameInit ==
  /\ app = "building"
  /\ panicAt = "none"
  /\ plugins = {}
  /\ renderAssetPlugin = FALSE
  /\ extractors = {}
  /\ systems = {}
  /\ nodeRegistered = FALSE
  /\ phase = "main"
  /\ frame = 1
  /\ bindKind \in [Entities -> {"ImageExport", "NDIExport"}]
  /\ bindSrc \in [Entities -> Sources]
  /\ senderLock = [e \in Entities |-> "free"]
  /\ registered = {}
  /\ pending = {}
  /\ gpuImages = {}
  /\ prepared = [s \in Sources |-> None]
  /\ bufState = [s \in Sources |-> "unmapped"]
  /\ bufContent = [s \in Sources |-> 0]
  /\ pc = [y \in SystemNames |-> "done"]
  /\ cur = [y \in SystemNames |-> NoEntity]
  /\ chan = [y \in SystemNames |-> "Empty"]
  /\ timer = 0
  /\ justFinished = FALSE
  /\ copies = [s \in Sources |-> 0]
  /\ cycles = [s \in Sources |-> 0]
  /\ outstanding = [s \in Sources |-> {}]
  /\ saved = {}
  /\ sent = [e \in Entities |-> 0]
  /\ buildFailed = {}
  /\ readTimings = {}
  /\ readTags = [e \in Entities |-> -1]
  /\ totalTime = 0
  /\ sendFrames = 0
  /\ lastSendAt = -1
  /\ shortGap = FALSE
  /\ fired = [y \in SystemNames |-> "no"]

\* No pure computation is under study.
NoCalc == [op |-> "none"]

Init == FrameInit /\ calc = NoCalc

\* A panic unwinds out of the schedule and ends the process.
Panic(where) ==
  /\ app' = "panicked"
  /\ panicAt' = where

NoPanic == UNCHANGED <<app, panicAt>>

\* ------------------------------------------------------ plugin construction

\* ImageExportPlugin::build. add_plugins of a unique plugin that is already
\* added panics before the render app is touched.
AddImageExportPlugin ==
  /\ app = "building"
  /\ "ImageExportPlugin" \notin plugins
  /\ IF renderAssetPlugin
       THEN /\ Panic("add_plugins")
            /\ UNCHANGED buildVars
       ELSE /\ NoPanic
            /\ plugins' = plugins \cup {"ImageExportPlugin"}
            /\ renderAssetPlugin' = TRUE
            /\ extractors' = extractors \cup {"ImageExport"}
            /\ systems' = systems \cup {"disk"}
            /\ nodeRegistered' = TRUE
  /\ UNCHANGED <<phase, frame, worldVars, calc, assetVars, bufVars, sysVars,
                 timerVars, frameHist, outstanding, fired>>

\* NDIExportPlugin::build: the rate limiter and ndi_send_buffer, and no
\* render-graph node.
AddNDIExportPlugin ==
  /\ app = "building"
  /\ "NDIExportPlugin" \notin plugins
  /\ IF renderAssetPlugin \/ "NDIExport" \in extractors
       THEN /\ Panic("add_plugins")
            /\ UNCHANGED <<buildVars, timer>>
       ELSE /\ NoPanic
            /\ plugins' = plugins \cup {"NDIExportPlugin"}
            /\ renderAssetPlugin' = TRUE
            /\ extractors' = extractors \cup {"NDIExport"}
            /\ systems' = systems \cup {"ndi"}
            /\ timer' = 0
            /\ UNCHANGED nodeRegistered
  /\ UNCHANGED <<phase, frame, worldVars, calc, assetVars, bufVars, sysVars,
                 justFinished, totalTime, sendFrames, lastSendAt, shortGap,
                 frameHist, outstanding, fired>>

\* The application adds ExtractComponentPlugin::<NDIExport> itself: NDIExport
\* and its ExtractComponent implementation are public. It is a unique plugin
\* as well.
AddNDIExtractComponentPlugin ==
  /\ app = "building"
  /\ IF "NDIExport" \in extractors
       THEN /\ Panic("add_plugins")
            /\ UNCHANGED buildVars
       ELSE /\ NoPanic
            /\ extractors' = extractors \cup {"NDIExport"}
            /\ UNCHANGED <<plugins, renderAssetPlugin, systems, nodeRegistered>>
  /\ UNCHANGED <<phase, frame, worldVars, calc, assetVars, bufVars, sysVars,
                 timerVars, frameHist, outstanding, fired>>

\* App::run with at least one of the crate's plugins.
AppRun ==
  /\ app = "building"
  /\ plugins # {}
  /\ app' = "running"
  /\ UNCHANGED <<panicAt, buildVars, phase, frame, worldVars, calc, assetVars,
                 bufVars, sysVars, timerVars, frameHist, outstanding,
                 fired>>

\* ------------------------------------------------------------- main world

\* Assets<ImageExportSource>::add: the asset is extracted and prepared in the
\* next render frame.  Export sources are numbered in the order in which they
\* are added.
AddExportSource(s) ==
  /\ app = "running"
  /\ phase = "main"
  /\ s \notin registered
  /\ \A r \in Sources : r < s => r \in registered
  /\ registered' = registered \cup {s}
  /\ pending' = pending \cup {s}
  /\ UNCHANGED <<app, panicAt, buildVars, phase, frame, worldVars, calc, gpuImages,
                 prepared, bufVars, sysVars, timerVars, frameHist, outstanding,
                 fired>>

\* The source texture of s becomes a prepared GPU image (RenderAssets<Image>).
\* Its preparation is not ordered with that of the export sources.
ImageResident(s) ==
  /\ app = "running"
  /\ phase \in {"main", "prepare"}
  /\ s \notin gpuImages
  /\ gpuImages' = gpuImages \cup {s}
  /\ UNCHANGED <<app, panicAt, buildVars, phase, frame, worldVars, calc, registered,
                 pending, prepared, bufVars, sysVars, timerVars, frameHist,
                 outstanding, fired>>

\* Start of a render frame: the extract schedule ran.
Extract ==
  /\ app = "running"
  /\ phase = "main"
  /\ phase' = "prepare"
  /\ UNCHANGED <<app, panicAt, buildVars, frame, worldVars, calc, assetVars, bufVars,
                 sysVars, timerVars, frameHist, outstanding, fired>>

\* ------------------------------------------------------------ the registry

\* images.get(&extracted_asset.0): the GpuImage of the source texture.
ImagesGet(s) == IF s \in gpuImages THEN [texture |-> s] ELSE None

\* ImageExportSource::prepare_asset: images.get(..).unwrap() panics when the
\* texture is not among the prepared GPU images.
PrepareAsset(s) ==
  /\ app = "running"
  /\ phase = "prepare"
  /\ s \in pending
  /\ IF ImagesGet(s) = None
       THEN /\ Panic("prepare_asset")
            /\ UNCHANGED <<pending, prepared>>
       ELSE /\ NoPanic
            /\ prepared' = [prepared EXCEPT ![s] = [buffer |-> s]]
            /\ pending' = pending \ {s}
  /\ UNCHANGED <<buildVars, phase, frame, worldVars, calc, registered, gpuImages,
                 bufVars, sysVars, timerVars, frameHist, outstanding,
                 fired>>

\* Mutant of Borrowed: the read takes the entries out of the registry.
Borrowed_Cleared(sources) == [s \in Sources |-> None]

\* get_image has the registry as sources: &RenderAssets<ImageExportSource>,
\* a shared reference: the registry it leaves is the one it was given.
Borrowed(sources) == sources

\* Mutant of Lookup: a buffer is found for every handle.
Lookup_AlwaysSome(s) == [buffer |-> s]

\* sources.get(source_handle.id())
Lookup(s) == prepared[s]

\* ------------------------------------------------------- the render graph

\* ImageExportNode::run: one texture-to-buffer copy for every prepared export
\* source whose texture exists this frame.
NodeCopies(s) == Lookup(s) # None /\ s \in gpuImages

\* RenderSet::Render: the render graph runs and its commands are submitted.
\* The copy node runs only when build registered it in the graph.  The
\* systems added after RenderSet::Render start afterwards.
RenderGraphRun ==
  /\ app = "running"
  /\ phase = "prepare"
  /\ pending = {}
  /\ copies' = [s \in Sources |->
                  IF nodeRegistered /\ NodeCopies(s) THEN copies[s] + 1 ELSE copies[s]]
  /\ bufContent' = [s \in Sources |->
                  IF nodeRegistered /\ NodeCopies(s) THEN frame ELSE bufContent[s]]
  /\ phase' = "systems"
  /\ pc' = [y \in SystemNames |->
              IF y \notin systems THEN "done"
              ELSE IF y = "ndi" THEN "tick" ELSE "iter"]
  /\ cur' = [y \in SystemNames |-> NoEntity]
  /\ UNCHANGED <<app, panicAt, buildVars, frame, worldVars, calc, assetVars, bufState,
                 chan, timerVars, cycles, saved, sent, buildFailed,
                 readTimings, readTags, outstanding, fired>>

\* RenderSet::Cleanup: the frame ends when every system has returned; the
\* per-frame history starts afresh.
EndFrame ==
  /\ app = "running"
  /\ phase = "systems"
  /\ \A y \in SystemNames : pc[y] = "done"
  /\ frame < MaxFrames
  /\ phase' = "main"
  /\ frame' = frame + 1
  /\ justFinished' = FALSE
  /\ copies' = [s \in Sources |-> 0]
  /\ cycles' = [s \in Sources |-> 0]
  /\ saved' = {}
  /\ sent' = [e \in Entities |-> 0]
  /\ buildFailed' = {}
  /\ readTimings' = {}
  /\ readTags' = [e \in Entities |-> -1]
  /\ UNCHANGED <<app, panicAt, buildVars, worldVars, calc, assetVars, bufVars,
                 sysVars, timer, totalTime, sendFrames, lastSendAt, shortGap,
                 outstanding, fired>>

\* ------------------------------------------------------------ the queries

\* Entities of the render world: those an ExtractComponentPlugin extracted,
\* each with its export component and its source handle.
RenderEntities == {e \in Entities : bindKind[e] \in extractors}

\* Query<Ref<Handle<ImageExportSource>>> of save_buffer_to_disk.
DiskQuery == RenderEntities

\* Query<(Ref<NDIExport>, Ref<Handle<ImageExportSource>>)> of ndi_send_buffer.
NdiQuery == {e \in RenderEntities : bindKind[e] = "NDIExport"}

QueryOf(y) == IF y = "disk" THEN DiskQuery ELSE NdiQuery

\* Entities the loop of system y has not visited yet, in iteration order.
Remaining(y) == {e \in QueryOf(y) : e > cur[y]}

NextEntity(y) == CHOOSE e \in Remaining(y) : \A f \in Remaining(y) : e <= f

\* Source whose buffer the current iteration of system y reads back.
CurSrc(y) == bindSrc[cur[y]]

\* ---------------------------------------------------- read-back: get_image

\* The for loop of a system calls get_image for its next entity; a source
\* without a prepared buffer makes get_image return None.
LoopNext(y) ==
  /\ app = "running"
  /\ phase = "systems"
  /\ pc[y] = "iter"
  /\ IF Remaining(y) = {}
       THEN /\ pc' = [pc EXCEPT ![y] = "done"]
            /\ cur' = [cur EXCEPT ![y] = NoEntity]
       ELSE /\ cur' = [cur EXCEPT ![y] = NextEntity(y)]
            /\ pc' = [pc EXCEPT ![y] =
                        IF Lookup(bindSrc[NextEntity(y)]) = None THEN "iter" ELSE "map"]
  /\ prepared' = Borrowed(prepared)
  /\ UNCHANGED <<app, panicAt, buildVars, phase, frame, worldVars, calc,
                 registered, pending, gpuImages,
                 bufVars, chan, timerVars, frameHist, outstanding,
                 fired>>

\* render_device.map_buffer(&slice, MapMode::Read, callback): the request is
\* queued; on a buffer that is already mapped or has a mapping pending the
\* backend completes the request with an error at once.
MapBuffer(y) ==
  /\ app = "running"
  /\ pc[y] = "map"
  /\ LET s == CurSrc(y) IN
       /\ outstanding' = [outstanding EXCEPT ![s] = @ \cup {<<y, cur[y]>>}]
       /\ IF bufState[s] = "unmapped"
            THEN /\ bufState' = [bufState EXCEPT ![s] = "pending"]
                 /\ chan' = [chan EXCEPT ![y] = "Empty"]
            ELSE /\ chan' = [chan EXCEPT ![y] = "Err"]
                 /\ UNCHANGED bufState
  /\ fired' = [fired EXCEPT ![y] = IF bufState[CurSrc(y)] = "unmapped" THEN "no" ELSE "inline"]
  /\ pc' = [pc EXCEPT ![y] = "poll"]
  /\ UNCHANGED <<app, panicAt, buildVars, phase, frame, worldVars, calc, assetVars,
                 bufContent, cur, timerVars, frameHist>>

\* State of the buffer once the backend completed the mapping with result r.
Completed(r) == IF r = "Ok" THEN "mapped" ELSE "unmapped"

\* render_device.poll(Maintain::Wait): the completion callback may fire inside
\* the call (mapping_tx.send(res)), with success or failure, or not yet.
Poll(y, r) ==
  /\ app = "running"
  /\ pc[y] = "poll"
  /\ IF chan[y] = "Empty" /\ r # "Later"
       THEN /\ bufState' = [bufState EXCEPT ![CurSrc(y)] = Completed(r)]
            /\ chan' = [chan EXCEPT ![y] = r]
            /\ fired' = [fired EXCEPT ![y] = "inline"]
       ELSE UNCHANGED <<bufState, chan, fired>>
  /\ pc' = [pc EXCEPT ![y] = "wait"]
  /\ UNCHANGED <<app, panicAt, buildVars, phase, frame, worldVars, calc, assetVars,
                 bufContent, cur, timerVars, frameHist, outstanding>>

\* The backend completes the mapping after poll returned: the callback sends
\* the result while the system is blocked on the receiver.
BackendCallback(y, r) ==
  /\ app = "running"
  /\ pc[y] = "wait"
  /\ chan[y] = "Empty"
  /\ bufState[CurSrc(y)] = "pending"
  /\ bufState' = [bufState EXCEPT ![CurSrc(y)] = Completed(r)]
  /\ chan' = [chan EXCEPT ![y] = r]
  /\ fired' = [fired EXCEPT ![y] = "later"]
  /\ UNCHANGED <<app, panicAt, buildVars, phase, frame, worldVars, calc, assetVars,
                 bufContent, pc, cur, timerVars, frameHist, outstanding>>

\* Mutant of BlockOnReady: the result is taken without waiting for the callback.
BlockOnReady_NoWait(c) == TRUE

\* block_on(mapping_rx) returns once the channel holds the result.
BlockOnReady(c) == c # "Empty"

\* futures_lite::future::block_on(mapping_rx).unwrap().unwrap(): waits for the
\* notification; the second unwrap panics on a failed mapping.
BlockOn(y) ==
  /\ app = "running"
  /\ pc[y] = "wait"
  /\ BlockOnReady(chan[y])
  /\ IF chan[y] = "Err"
       THEN /\ Panic("get_image")
            /\ UNCHANGED pc
       ELSE /\ NoPanic
            /\ pc' = [pc EXCEPT ![y] = "read"]
  /\ UNCHANGED <<buildVars, phase, frame, worldVars, calc, assetVars, bufVars, cur,
                 chan, timerVars, frameHist, outstanding, fired>>

\* slice.get_mapped_range().to_vec(): copies the mapped bytes into an owned
\* vector; the backend panics when the buffer is not mapped.
ReadMappedRange(y) ==
  /\ app = "running"
  /\ pc[y] = "read"
  /\ IF bufState[CurSrc(y)] = "mapped"
       THEN /\ NoPanic
            /\ readTags' = [readTags EXCEPT ![cur[y]] = bufContent[CurSrc(y)]]
            /\ readTimings' = readTimings \cup {fired[y]}
            /\ pc' = [pc EXCEPT ![y] = "unmap"]
       ELSE /\ Panic("get_image")
            /\ UNCHANGED <<readTags, readTimings, pc>>
  /\ UNCHANGED <<buildVars, phase, frame, worldVars, calc, assetVars, bufVars, cur,
                 chan, timerVars, copies, cycles, saved, sent, buildFailed,
                 outstanding, fired>>

\* Mutant of Unmapped: the buffer is not unmapped.
Unmapped_Skipped(st) == st

\* State of a buffer after gpu_source.buffer.unmap().
Unmapped(st) == "unmapped"

\* gpu_source.buffer.unmap(); the depadded bytes become the Image get_image
\* returns to the system.
Unmap(y) ==
  /\ app = "running"
  /\ pc[y] = "unmap"
  /\ LET s == CurSrc(y) IN
       /\ bufState' = [bufState EXCEPT ![s] = Unmapped(@)]
       /\ outstanding' = [outstanding EXCEPT ![s] =
                            IF Unmapped(bufState[s]) = "unmapped"
                              THEN @ \ {<<y, cur[y]>>} ELSE @]
       /\ cycles' = [cycles EXCEPT ![s] = @ + 1]
  /\ pc' = [pc EXCEPT ![y] = "dispatch"]
  /\ chan' = [chan EXCEPT ![y] = "Empty"]
  /\ fired' = [fired EXCEPT ![y] = "no"]
  /\ prepared' = Borrowed(prepared)
  /\ UNCHANGED <<app, panicAt, buildVars, phase, frame, worldVars, calc,
                 registered, pending, gpuImages,
                 bufContent, cur, timerVars, copies, saved, sent,
                 buildFailed, readTimings, readTags>>

\* ------------------------------------------------------------ the consumers

\* save_buffer_to_disk, after get_image returned Some(img): the image is
\* handed to the disk writer (try_into_dynamic, then save("test.png")); the
\* results of both are discarded.
DiskSave ==
  /\ app = "running"
  /\ pc["disk"] = "dispatch"
  /\ saved' = saved \cup {<<"disk", cur["disk"]>>}
  /\ pc' = [pc EXCEPT !["disk"] = "iter"]
  /\ UNCHANGED <<app, panicAt, buildVars, phase, frame, worldVars, calc, assetVars,
                 bufVars, cur, chan, timerVars, copies, cycles, sent,
                 buildFailed, readTimings, readTags, outstanding, fired>>

\* Timer::tick(delta) of a TimerMode::Repeating timer: the elapsed time wraps
\* at the duration, and just_finished() tells whether it wrapped in this tick.
TimerTick(elapsed, d) ==
  [elapsed |-> (elapsed + d) % Interval, just_finished |-> elapsed + d >= Interval]

\* Mutant of NdiGateOpen: the negation of the early return is dropped.
NdiGateOpen_Inverted(finished) == ~finished

\* if !timer.0.tick(time.delta()).just_finished() { return; }
NdiGateOpen(finished) == finished

\* ndi_send_buffer up to its loop: ticks the one NDIExportRateLimiter resource
\* with the frame's delta d and returns unless the timer just finished.
NdiTick(d) ==
  /\ app = "running"
  /\ pc["ndi"] = "tick"
  /\ LET t == TimerTick(timer, d) IN
       /\ timer' = t.elapsed
       /\ justFinished' = t.just_finished
       /\ pc' = [pc EXCEPT !["ndi"] = IF NdiGateOpen(t.just_finished) THEN "iter" ELSE "done"]
  /\ totalTime' = totalTime + d
  /\ UNCHANGED <<app, panicAt, buildVars, phase, frame, worldVars, calc, assetVars,
                 bufVars, cur, chan, sendFrames, lastSendAt, shortGap,
                 frameHist, outstanding, fired>>

\* ndi_send_buffer, after get_image returned Some(img): the debug snapshot,
\* then frame_builder.build(); on Err the system returns.
NdiBuildFrame(ok) ==
  /\ app = "running"
  /\ pc["ndi"] = "dispatch"
  /\ saved' = saved \cup {<<"ndi", cur["ndi"]>>}
  /\ IF ok
       THEN /\ pc' = [pc EXCEPT !["ndi"] = "send"]
            /\ UNCHANGED <<cur, buildFailed>>
       ELSE /\ buildFailed' = buildFailed \cup {cur["ndi"]}
            /\ pc' = [pc EXCEPT !["ndi"] = "done"]
            /\ cur' = [cur EXCEPT !["ndi"] = NoEntity]
  /\ UNCHANGED <<app, panicAt, buildVars, phase, frame, worldVars, calc, assetVars,
                 bufVars, chan, timerVars, copies, cycles, sent,
                 readTimings, readTags, outstanding, fired>>

\* Entities whose frame ndi_send_buffer sent in this frame.
SentSet == {e \in Entities : sent[e] > 0}

\* ndi_export.sender.lock().unwrap_or_else(|e| e.into_inner()): the guard of
\* the entity's sender mutex; a poisoned lock is taken all the same. The
\* sender field is private and locked nowhere else, so the lock is free.
NdiLock ==
  /\ app = "running"
  /\ pc["ndi"] = "send"
  /\ senderLock[cur["ndi"]] = "free"
  /\ senderLock' = [senderLock EXCEPT ![cur["ndi"]] = "render"]
  /\ pc' = [pc EXCEPT !["ndi"] = "sending"]
  /\ UNCHANGED <<app, panicAt, buildVars, phase, frame, bindKind, bindSrc,
                 calc, assetVars, bufVars, cur, chan, timerVars, frameHist,
                 outstanding, fired>>

\* Mutant of GuardAfterSend: the guard outlives the statement.
GuardAfterSend_Kept(holder) == holder

\* The guard is a temporary of the statement: it is dropped when
\* send_video has returned.
GuardAfterSend(holder) == "free"

\* .send_video(frame), and the end of the statement.
NdiSend ==
  /\ app = "running"
  /\ pc["ndi"] = "sending"
  /\ senderLock' = [senderLock EXCEPT ![cur["ndi"]] = GuardAfterSend(@)]
  /\ sent' = [sent EXCEPT ![cur["ndi"]] = @ + 1]
  /\ sendFrames' = IF SentSet = {} THEN sendFrames + 1 ELSE sendFrames
  /\ lastSendAt' = totalTime
  /\ shortGap' = (shortGap \/ (SentSet = {} /\ lastSendAt >= 0
                                 /\ totalTime - lastSendAt < Interval))
  /\ pc' = [pc EXCEPT !["ndi"] = "iter"]
  /\ UNCHANGED <<app, panicAt, buildVars, phase, frame, bindKind, bindSrc,
                 calc, assetVars,
                 bufVars, cur, chan, timer, justFinished, totalTime,
                 copies, cycles, saved, buildFailed, readTimings, readTags,
                 outstanding,
                 fired>>

\* ------------------------------------------------------------ specification

Next ==
  \/ AddImageExportPlugin
  \/ AddNDIExportPlugin
  \/ AddNDIExtractComponentPlugin
  \/ AppRun
  \/ \E s \in Sources : AddExportSource(s)
  \/ \E s \in Sources : ImageResident(s)
  \/ Extract
  \/ \E s \in Sources : PrepareAsset(s)
  \/ RenderGraphRun
  \/ \E y \in SystemNames : LoopNext(y)
  \/ \E y \in SystemNames : MapBuffer(y)
  \/ \E y \in SystemNames, r \in {"Ok", "Err", "Later"} : Poll(y, r)
  \/ \E y \in SystemNames, r \in {"Ok", "Err"} : BackendCallback(y, r)
  \/ \E y \in SystemNames : BlockOn(y)
  \/ \E y \in SystemNames : ReadMappedRange(y)
  \/ \E y \in SystemNames : Unmap(y)
  \/ DiskSave
  \/ \E d \in 0..MaxDelta : NdiTick(d)
  \/ \E ok \in BOOLEAN : NdiBuildFrame(ok)
  \/ NdiLock
  \/ NdiSend
  \/ EndFrame

Spec == Init /\ [][Next]_vars

\* The wait of a read-back is the same whichever source an entity is bound
\* to: the fair specification binds every entity to the first source.
InitFair == Init /\ bindSrc = [e \in Entities |-> 1]

\* The thread blocked in block_on runs again once the channel holds the
\* result: a return of block_on that stays possible happens.
FairSpec ==
  InitFair /\ [][Next]_vars /\ \A y \in SystemNames : WF_vars(BlockOn(y))

\* ------------------------------------------------------------------ claims

\* A system is between its map request and its unmap.
InWindow(y) == pc[y] \in {"poll", "wait", "read", "unmap"}

\* C1: when the backend completes a mapping request with failure, get_image
\* returns None for that frame: the process keeps running (no panic reaches
\* the caller) and no consumer is dispatched for that binding in that frame.
C1_MappingFailureReturnsNone ==
  \A y \in SystemNames :
    chan[y] = "Err" =>
      /\ app = "running"
      /\ panicAt = "none"
      /\ <<y, cur[y]>> \notin saved
      /\ sent[cur[y]] = 0

\* C2: every read-back of frame N is preceded in frame N by the copy for its
\* source, so the bytes it reads are those written by frame N's copy; and no
\* copy is issued between a map request and its unmap (copies are issued
\* outside the systems phase, where no mapping is open).
C2_ReadBackSeesThisFramesCopy ==
  /\ \A e \in Entities :
       readTags[e] # -1 => (copies[bindSrc[e]] >= 1 /\ readTags[e] = frame)
  /\ phase # "systems" =>
       \A s \in Sources : bufState[s] = "unmapped" /\ outstanding[s] = {}

\* C3: in every render frame, exactly one texture-to-buffer copy is issued for
\* every export source that has a prepared buffer, whichever of the two
\* plugins is installed.
C3_OneCopyPerFrame ==
  (app = "running" /\ phase = "systems") =>
    \A s \in Sources : Lookup(s) # None => copies[s] = 1

\* C4: the mapped range is read only after the completion notification fired
\* with success, whether the callback fired inside poll or after it; it is
\* never read while the mapping is pending (get_mapped_range never finds the
\* buffer unmapped: a panic of get_image comes from a failure notification).
C4_ReadOnlyAfterSuccess ==
  /\ \A y \in SystemNames :
       pc[y] = "read" =>
         /\ chan[y] = "Ok"
         /\ fired[y] \in {"inline", "later"}
         /\ bufState[CurSrc(y)] = "mapped"
  /\ readTimings \subseteq {"inline", "later"}
  /\ panicAt = "get_image" =>
       \E y \in SystemNames : pc[y] = "wait" /\ chan[y] = "Err"

\* Both callback timings were followed by a read of the mapped range in one frame.
C4_Witness == readTimings = {"inline", "later"}

\* C5: between a map request on a staging buffer and its unmap, no other map
\* request, read or unmap is issued on that buffer: at most one request is
\* outstanding, at most one system is inside the window, that system is the
\* one that issued the request, and a buffer is mapped or pending only inside
\* a window.
C5_ExclusiveOwnership ==
  \A s \in Sources :
    /\ Cardinality(outstanding[s]) <= 1
    /\ Cardinality({y \in SystemNames : InWindow(y) /\ CurSrc(y) = s}) <= 1
    /\ \A y \in SystemNames :
         (InWindow(y) /\ CurSrc(y) = s) => outstanding[s] = {<<y, cur[y]>>}
    /\ bufState[s] # "unmapped" =>
         \E y \in SystemNames : InWindow(y) /\ CurSrc(y) = s

\* A second binding of the same source holds the mapping after the first
\* binding's read-back of this frame completed.
C5_Witness == \E s \in Sources : cycles[s] >= 1 /\ bufState[s] = "mapped"

\* C6: preparing an export source whose texture is not among the prepared GPU
\* images never panics: the process keeps running.
C6_MissingTextureIsNoPanic == panicAt # "prepare_asset"

\* C7: when frame construction fails for one live-output binding, only that
\* binding's frame is dropped: at the end of an export tick every other
\* live-output binding with a prepared source has had its send call.
C7_BuildFailureDropsOneFrame ==
  (app = "running" /\ phase = "systems" /\ "ndi" \in systems
     /\ pc["ndi"] = "done" /\ justFinished) =>
    \A e \in NdiQuery :
      Lookup(bindSrc[e]) # None => (sent[e] = 1 \/ e \in buildFailed)

\* C8 as stated: the consumer sends at most once per frame; between any two
\* frames in which it sends at least one full interval of accumulated frame
\* delta has elapsed; and in a frame where the interval has not just elapsed
\* it issues no map request and no send.
C8_FullIntervalBetweenSends ==
  /\ \A e \in Entities : sent[e] <= 1
  /\ ~shortGap
  /\ (pc["ndi"] \notin {"tick", "done"} \/ SentSet # {}) => justFinished

\* C8 as amended: the consumer sends at most once per frame and only in a
\* frame whose tick made the repeating timer wrap, so the number of frames in
\* which it sends never exceeds the number of whole intervals in the
\* accumulated frame delta; in a frame where the interval has not just
\* elapsed it issues no map request and no send.  (Two sending frames may be
\* less than one interval apart: the timer carries the remainder over.)
C8_AtMostOncePerElapsedInterval ==
  /\ \A e \in Entities : sent[e] <= 1
  /\ sendFrames * Interval <= totalTime
  /\ (pc["ndi"] \notin {"tick", "done"} \/ SentSet # {}) => justFinished
  /\ timer = totalTime % Interval

\* The consumer sent in two frames that are less than one interval apart.
C8_Witness == shortGap /\ sendFrames >= 2

\* The rate-limit state that gates the dispatch of live-output binding e: the
\* NDIExportRateLimiter resource, one for all bindings.
RateLimiterOf(e) == timer

\* C9: rate-limit state is independent per binding: a step that ticks the
\* timer of one live-output binding leaves the timer of every other
\* live-output binding unchanged.
C9_TimersIndependent ==
  [][\A e1, e2 \in NdiQuery :
       (e1 # e2 /\ RateLimiterOf(e1)' # RateLimiterOf(e1))
         => RateLimiterOf(e2)' = RateLimiterOf(e2)]_vars

\* C10: at most one map/read/unmap cycle is performed per frame on the
\* staging buffer of an export source, however many bindings reference it,
\* and all bindings of the source get the same content.
C10_OneReadBackPerFrame ==
  /\ \A s \in Sources : cycles[s] <= 1
  /\ \A e1, e2 \in Entities :
       (bindSrc[e1] = bindSrc[e2] /\ readTags[e1] # -1 /\ readTags[e2] # -1)
         => readTags[e1] = readTags[e2]

\* C15: the lock of a sender is held by the render system only while it is
\* in the send call for that entity: not while a map request is outstanding
\* or waited for, not during frame construction, and not once the system
\* has finished.
C15_LockOnlyDuringSend ==
  \A e \in Entities :
    senderLock[e] = "render" =>
      /\ pc["ndi"] = "sending"
      /\ cur["ndi"] = e
      /\ ~InWindow("ndi")
      /\ chan["ndi"] = "Empty"
      /\ bufState[bindSrc[e]] = "unmapped"

\* A send has returned, the system has finished, and every lock is free.
C15_Witness ==
  /\ pc["ndi"] = "done"
  /\ \E e \in Entities : sent[e] > 0
  /\ \A e \in Entities : senderLock[e] = "free"

\* C16: a source without a prepared buffer is skipped silently. No map
\* request is issued on it and nothing is unmapped, no entity bound to it is
\* read, saved or sent, the loop goes on to its next entity at once (no
\* panic), and when the disk system has finished, every queried entity whose
\* source is prepared has been saved.
C16_UnpreparedSourceIsSkipped ==
  /\ \A s \in Sources :
       prepared[s] = None =>
         /\ bufState[s] = "unmapped"
         /\ outstanding[s] = {}
         /\ cycles[s] = 0
         /\ \A e \in Entities :
              bindSrc[e] = s =>
                /\ readTags[e] = -1
                /\ sent[e] = 0
                /\ \A y \in SystemNames : <<y, e>> \notin saved
  /\ \A y \in SystemNames :
       (cur[y] # NoEntity /\ prepared[CurSrc(y)] = None) => pc[y] = "iter"
  /\ (app = "running" /\ phase = "systems" /\ "disk" \in systems
        /\ pc["disk"] = "done")
       => \A e \in DiskQuery :
            prepared[bindSrc[e]] # None => <<"disk", e>> \in saved

\* The disk system skipped an entity whose source is not prepared and saved
\* the image of a later entity.
C16_Witness ==
  /\ pc["disk"] = "done"
  /\ \E e1, e2 \in DiskQuery :
       /\ e1 < e2
       /\ prepared[bindSrc[e1]] = None
       /\ <<"disk", e2>> \in saved

\* C17: no step of the systems (the lookup, the read-back, the dispatch)
\* changes the registry: every source keeps its prepared buffer, and a
\* lookup after the step returns what a lookup before it returned.
C17_ReadBackLeavesRegistry ==
  [][(app = "running" /\ phase = "systems")
       => /\ prepared' = prepared
          /\ \A s \in Sources : Lookup(s)' = Lookup(s)]_vars

\* One prepared buffer has been read back twice in a frame and is still
\* the registry's entry of its source.
C17_Witness ==
  \E s \in Sources : cycles[s] >= 2 /\ Lookup(s) = [buffer |-> s]

\* C18: a mapping is released once, after the copy into an owned vector and
\* before the image is returned. At the unmap the buffer is mapped and the
\* entity's bytes are the copy of its content; while the image is with a
\* consumer the buffer is unmapped; outside the systems (so when the render
\* graph issues the next copy) and for every source no read-back is working
\* on, the buffer is unmapped; and the unmaps of a frame are as many as its
\* completed reads.
C18_MappingReleasedBeforeReturn ==
  /\ \A y \in SystemNames :
       /\ pc[y] = "unmap" =>
            /\ bufState[CurSrc(y)] = "mapped"
            /\ readTags[cur[y]] = bufContent[CurSrc(y)]
       /\ pc[y] \in {"dispatch", "send", "sending"} =>
            bufState[CurSrc(y)] = "unmapped"
  /\ phase # "systems" => \A s \in Sources : bufState[s] = "unmapped"
  /\ \A s \in Sources :
       /\ (\A y \in SystemNames : ~(InWindow(y) /\ CurSrc(y) = s))
            => bufState[s] = "unmapped"
       /\ cycles[s] + Cardinality({y \in SystemNames :
                                     pc[y] = "unmap" /\ CurSrc(y) = s})
            = Cardinality({e \in Entities :
                             bindSrc[e] = s /\ readTags[e] # -1})

\* In a later frame an image is with its consumer, its buffer released.
C18_Witness ==
  \E y \in SystemNames :
    /\ frame >= 2
    /\ pc[y] = "dispatch"
    /\ readTags[cur[y]] # -1
    /\ cycles[CurSrc(y)] >= 1
    /\ bufState[CurSrc(y)] = "unmapped"

\* C19: save_buffer_to_disk reads back and saves only for entities that
\* carry an ImageExport component: an entity with an NDIExport component
\* only is never the one its read-back works on and never has a file saved.
C19_DiskSinkOnlyOnDiskBindings ==
  \A e \in Entities :
    bindKind[e] = "NDIExport" =>
      /\ <<"disk", e>> \notin saved
      /\ ~(cur["disk"] = e
            /\ pc["disk"] \in {"map", "poll", "wait", "read", "unmap", "dispatch"})

\* C20: a map request is neither cancelled nor timed out. While the system
\* waits and no completion has been signalled, every step leaves it waiting
\* in the same frame, with the request still pending unless the step is the
\* completion; and once a completion (success or failure) has been
\* signalled, the system leaves the wait: it reads on, or the process ends
\* with the panic on the failed mapping.
C20_WaitEndsOnlyOnCompletion ==
  /\ [][\A y \in SystemNames :
         (app = "running" /\ pc[y] = "wait" /\ chan[y] = "Empty") =>
            /\ pc'[y] = "wait"
            /\ cur'[y] = cur[y]
            /\ frame' = frame
            /\ phase' = phase
            /\ app' = "running"
            /\ chan'[y] = "Empty" => bufState'[CurSrc(y)] = "pending"]_vars
  /\ \A y \in SystemNames :
       (app = "running" /\ pc[y] = "wait" /\ chan[y] # "Empty")
         ~> (pc[y] = "read" \/ panicAt = "get_image")

\* A system waits on a request whose completion has not been signalled by
\* the end of poll.
C20_Witness ==
  \E y \in SystemNames :
    /\ app = "running"
    /\ pc[y] = "wait"
    /\ chan[y] = "Empty"
    /\ bufState[CurSrc(y)] = "pending"

\* -------------------------------------------------------- pure computations
\* The row-pitch arithmetic of prepare_asset and the depadding of get_image,
\* studied on their own: SpecCalc draws one call (calc) and applies the
\* computation to it; the App stays as constructed.

\* bounds of the depadding calls
MaxPadded == 4
MaxHeight == 3

\* A computation that panicked.
Panicked == [ok |-> FALSE, bytes |-> <<>>]

Returned(bytes) == [ok |-> TRUE, bytes |-> bytes]

\* slice::chunks(n): consecutive chunks of n elements, the last one shorter
\* when the length is no multiple of n.
RECURSIVE Chunks(_, _)
Chunks(bytes, n) ==
  IF Len(bytes) = 0 THEN <<>>
  ELSE IF Len(bytes) <= n THEN <<bytes>>
  ELSE <<SubSeq(bytes, 1, n)>> \o Chunks(SubSeq(bytes, n + 1, Len(bytes)), n)

\* The loop body over the chunks: unpadded_bytes.extend_from_slice(&padded_row[..bytes_per_row])
RECURSIVE ExtendRows(_, _)
ExtendRows(rows, bytes_per_row) ==
  IF rows = <<>> THEN <<>>
  ELSE SubSeq(Head(rows), 1, bytes_per_row) \o ExtendRows(Tail(rows), bytes_per_row)

\* Mutant of ChunkSize: the buffer is cut at the unpadded row size.
ChunkSize_Unpadded(bytes_per_row, padded_bytes_per_row) == bytes_per_row

\* image_bytes.chunks(padded_bytes_per_row)
ChunkSize(bytes_per_row, padded_bytes_per_row) == padded_bytes_per_row

\* get_image, lines 147-160: the padding of every row is dropped when the two
\* row sizes differ; chunks(0) and a slice beyond a chunk's end panic.
Depad(image_bytes, bytes_per_row, padded_bytes_per_row) ==
  IF bytes_per_row # padded_bytes_per_row
    THEN LET n == ChunkSize(bytes_per_row, padded_bytes_per_row)
             rows == Chunks(image_bytes, n)
         IN IF n = 0 \/ \E i \in 1..Len(rows) : Len(rows[i]) < bytes_per_row
              THEN Panicked
              ELSE Returned(ExtendRows(rows, bytes_per_row))
    ELSE Returned(image_bytes)

\* A raw buffer of padded_bytes_per_row x height bytes, each byte named by
\* its offset, so that every byte of the output tells where it came from.
RawBuffer(padded_bytes_per_row, height) ==
  [i \in 1..(padded_bytes_per_row * height) |-> i]

\* The calls of Depad under study: every height and every pair of row sizes
\* with bytes_per_row <= padded_bytes_per_row up to the bounds.
DepadCalls ==
  {[op |-> "depad", done |-> FALSE, height |-> h, bytes_per_row |-> c[1],
    padded_bytes_per_row |-> c[2], raw |-> RawBuffer(c[2], h),
    out |-> Panicked] :
     h \in 0..MaxHeight,
     c \in {d \in (0..MaxPadded) \X (0..MaxPadded) : d[1] <= d[2]}}

\* One call of the depadding.
CalcDepad ==
  /\ calc.op = "depad"
  /\ ~calc.done
  /\ calc' = [calc EXCEPT !.done = TRUE,
                          !.out = Depad(calc.raw, calc.bytes_per_row,
                                        calc.padded_bytes_per_row)]
  /\ UNCHANGED <<app, panicAt, buildVars, phase, frame, worldVars, assetVars,
                 bufVars, sysVars, timerVars, frameHist, outstanding, fired>>

\* bounds of the prepare calls
MaxDimension == 32768
MaxReadUnits == 8

\* wgpu::COPY_BYTES_PER_ROW_ALIGNMENT
CopyBytesPerRowAlignment == 256

\* 2^32 bytes, counted in units of CopyBytesPerRowAlignment bytes.
U32Units == 2^24

\* Texture formats of the source image: one byte per pixel, the format the
\* returned Image is labelled with, wider pixels, a block-compressed format
\* and a depth-stencil format.
Formats ==
  {"R8Unorm", "Rgba8UnormSrgb", "Rgba16Float", "Rgba32Float", "Bc1RgbaUnorm",
   "Depth24PlusStencil8"}

\* format.block_dimensions().0
BlockDimensions0(format) == IF format = "Bc1RgbaUnorm" THEN 4 ELSE 1

\* format.block_size(None); 0 stands for None (the size of a depth-stencil
\* format depends on the aspect).
BlockSize(format) ==
  CASE format = "R8Unorm" -> 1
    [] format = "Rgba8UnormSrgb" -> 4
    [] format = "Rgba16Float" -> 8
    [] format = "Rgba32Float" -> 16
    [] format = "Bc1RgbaUnorm" -> 8
    [] format = "Depth24PlusStencil8" -> 0

\* Mutant of AlignCopyBytesPerRow: an aligned row is padded by a whole unit.
AlignCopyBytesPerRow_AlwaysPads(row_bytes) ==
  row_bytes + (CopyBytesPerRowAlignment - (row_bytes % CopyBytesPerRowAlignment))

\* RenderDevice::align_copy_bytes_per_row
AlignCopyBytesPerRow(row_bytes) ==
  LET align == CopyBytesPerRowAlignment
      padded_bytes_per_row_padding == (align - (row_bytes % align)) % align
  IN row_bytes + padded_bytes_per_row_padding

\* Result of a prepare_asset call that did not return.
PreparePanic(why) ==
  [ok |-> FALSE, panic |-> why, bytes_per_row |-> 0,
   padded_bytes_per_row |-> 0, size_units |-> 0, wrapped |-> FALSE,
   data_len |-> -1]

\* prepare_asset, lines 56-71. Widths stay below 2^32 / 16, so the u32
\* product of line 59 is exact. The buffer size is counted in units of
\* CopyBytesPerRowAlignment bytes (padded_bytes_per_row is a multiple of
\* it): the u32 product of line 68 wraps at U32Units units where overflow
\* checks are off (release) and panics where they are on (debug).
Prepare(format, width, height, build) ==
  IF BlockSize(format) = 0 THEN PreparePanic("unwrap")
  ELSE
    LET bytes_per_row == (width \div BlockDimensions0(format)) * BlockSize(format)
        padded_bytes_per_row == AlignCopyBytesPerRow(bytes_per_row)
        units == height * (padded_bytes_per_row \div CopyBytesPerRowAlignment)
    IN IF units >= U32Units /\ build = "debug" THEN PreparePanic("overflow")
       ELSE [ok |-> TRUE, panic |-> "none", bytes_per_row |-> bytes_per_row,
             padded_bytes_per_row |-> padded_bytes_per_row,
             size_units |-> units % U32Units, wrapped |-> units >= U32Units,
             data_len |-> -1]

\* Texture widths and heights of the prepare calls.
Widths == {0, 1, 3, 4, 63, 64, 65, 128, MaxDimension \div 2, MaxDimension}

Heights == (0..MaxHeight) \cup {MaxDimension \div 2, MaxDimension}

\* The calls of prepare_asset under study.
PrepareCalls ==
  {[op |-> "prepare", stage |-> "call", format |-> f, width |-> w,
    height |-> h, build |-> b, out |-> PreparePanic("none")] :
     f \in Formats, w \in Widths, h \in Heights, b \in {"debug", "release"}}

\* One call of prepare_asset.
CalcPrepare ==
  /\ calc.op = "prepare"
  /\ calc.stage = "call"
  /\ calc' = [calc EXCEPT !.stage = "prepared",
                          !.out = Prepare(calc.format, calc.width, calc.height,
                                          calc.build)]
  /\ UNCHANGED <<app, panicAt, buildVars, phase, frame, worldVars, assetVars,
                 bufVars, sysVars, timerVars, frameHist, outstanding, fired>>

\* Bytes of the Image get_image returns for the prepared source: the whole
\* staging buffer is read (line 142) and depadded (lines 147-160).
ImageData(out) ==
  Depad([i \in 1..(out.size_units * CopyBytesPerRowAlignment) |-> i],
        out.bytes_per_row, out.padded_bytes_per_row)

\* One read of a prepared source whose buffer has at most MaxReadUnits units.
CalcRead ==
  /\ calc.op = "prepare"
  /\ calc.stage = "prepared"
  /\ calc.out.ok
  /\ ~calc.out.wrapped
  /\ calc.out.size_units <= MaxReadUnits
  /\ ImageData(calc.out).ok
  /\ calc' = [calc EXCEPT !.stage = "read",
                          !.out.data_len = Len(ImageData(calc.out).bytes)]
  /\ UNCHANGED <<app, panicAt, buildVars, phase, frame, worldVars, assetVars,
                 bufVars, sysVars, timerVars, frameHist, outstanding, fired>>

\* The calls under study.
CalcInputs == DepadCalls \cup PrepareCalls

\* The App as constructed, with one call drawn.
InitCalc ==
  /\ FrameInit
  /\ bindKind = [e \in Entities |-> "ImageExport"]
  /\ bindSrc = [e \in Entities |-> 1]
  /\ calc \in CalcInputs

NextCalc ==
  \/ CalcDepad
  \/ CalcPrepare
  \/ CalcRead

SpecCalc == InitCalc /\ [][NextCalc]_vars

\* The reference: byte i of the output is the byte of the raw buffer at
\* row (i-1) \div bytes_per_row, column (i-1) % bytes_per_row.
DepadRef(raw, bytes_per_row, padded_bytes_per_row, height) ==
  [i \in 1..(bytes_per_row * height) |->
     raw[((i - 1) \div bytes_per_row) * padded_bytes_per_row
         + ((i - 1) % bytes_per_row) + 1]]

\* C11: for every height and every bytes_per_row <= padded_bytes_per_row,
\* depadding a raw buffer of padded_bytes_per_row x height bytes returns, in
\* row order, the first bytes_per_row bytes of each padded row; the output
\* has bytes_per_row x height bytes; with equal row sizes it is the input.
C11_DepadEqualsReference ==
  (calc.op = "depad" /\ calc.done) =>
     /\ calc.out.ok
     /\ calc.out.bytes = DepadRef(calc.raw, calc.bytes_per_row,
                                  calc.padded_bytes_per_row, calc.height)
     /\ Len(calc.out.bytes) = calc.bytes_per_row * calc.height
     /\ (calc.bytes_per_row = calc.padded_bytes_per_row
           => calc.out.bytes = calc.raw)

\* Padding was dropped from several rows.
C11_Witness ==
  /\ calc.op = "depad"
  /\ calc.done
  /\ calc.height >= 2
  /\ 0 < calc.bytes_per_row
  /\ calc.bytes_per_row < calc.padded_bytes_per_row
  /\ calc.out.bytes # calc.raw

\* C12: the Image read back from a prepared source holds width x height x 4
\* bytes, whatever the format of the source texture, so its rows have the
\* width x 4 bytes ndi_send_buffer gives as the stride.
C12_BufferIsRgba8 ==
  (calc.op = "prepare" /\ calc.stage = "read") =>
     /\ calc.out.data_len = calc.width * calc.height * 4
     /\ calc.out.bytes_per_row = calc.width * 4

\* C13: padded_bytes_per_row of a prepared source is the smallest multiple
\* of the row alignment (256) that is >= bytes_per_row: it is a multiple, it
\* is not below bytes_per_row, it exceeds it by less than 256, and no
\* smaller multiple reaches bytes_per_row.
C13_SmallestAlignedPitch ==
  (calc.op = "prepare" /\ calc.stage # "call" /\ calc.out.ok) =>
     LET b == calc.out.bytes_per_row
         p == calc.out.padded_bytes_per_row
     IN /\ p % CopyBytesPerRowAlignment = 0
        /\ p >= b
        /\ p - b < CopyBytesPerRowAlignment
        /\ \A m \in 0..(p \div CopyBytesPerRowAlignment) :
             m * CopyBytesPerRowAlignment >= b
               => m * CopyBytesPerRowAlignment >= p

\* A prepared source whose rows are longer than one alignment unit and
\* needed padding.
C13_Witness ==
  /\ calc.op = "prepare"
  /\ calc.stage = "prepared"
  /\ calc.out.ok
  /\ calc.out.bytes_per_row > CopyBytesPerRowAlignment
  /\ calc.out.bytes_per_row % CopyBytesPerRowAlignment # 0
  /\ calc.out.padded_bytes_per_row > calc.out.bytes_per_row

\* C14: for every texture whose format has a block size, prepare allocates
\* a staging buffer of exactly padded_bytes_per_row x height bytes: the
\* 32-bit product neither wraps nor fails.
C14_SizeIsExactProduct ==
  (calc.op = "prepare" /\ calc.stage # "call" /\ BlockSize(calc.format) # 0) =>
     /\ calc.out.ok
     /\ ~calc.out.wrapped
     /\ calc.out.size_units
          = calc.height * (calc.out.padded_bytes_per_row
                             \div CopyBytesPerRowAlignment)

====
